---- MODULE Spec2Model ----
(***************************************************************************)
(* ssh2tcp: a relay that accepts inbound channels on one transport and      *)
(* splices each to a freshly dialed outbound channel.  The model follows    *)
(* src/ssh2tcp.go (main, doServer, newServerChannel, setupRelay) and the    *)
(* two back ends, src/tcp.go and src/ssh.go.                                *)
(*                                                                         *)
(* Every goroutine is a process with a program counter.  A send on the      *)
(* unbuffered channel sdcs is a rendezvous: the sender waits in a "send"    *)
(* state and the receive of newServerChannel's select moves both.  A panic  *)
(* in any goroutine ends the whole process (crashed); no step is taken      *)
(* once the process has crashed or main has returned (Alive).               *)
(***************************************************************************)
EXTENDS Integers, Sequences, FiniteSets, TLC

\* Inbound connections (and inbound channels) the environment offers.
MaxConn == 2
\* Bytes each peer of a session writes in the byte-level specification.
MaxBytes == 2

Chans == 1..MaxConn
Conns == 1..MaxConn
Kinds == {"tcp", "ssh"}
\* "s2c": io.Copy(cdc, sdc), inbound -> outbound; "c2s": io.Copy(sdc, cdc).
Dirs == {"s2c", "c2s"}

VARIABLES
    serverKind,  \* initServer: the transport of the listener
    clientKind,  \* initClient: the transport of the dialer
    mainpc,      \* main's position
    done,        \* the channel done of main: TRUE once closed
    wg,          \* the sync.WaitGroup counter
    crashed,     \* a goroutine panicked: the process is gone
    lnr,         \* Server.lnr: "nil", "open" or "closed"
    srvpc,       \* doServer's position
    srvHeld,     \* the connection TcpServer.Accept is sending on sdcs (0: none)
    srvExit,     \* why doServer returned
    nAccepted,   \* lnr.Accept calls that returned a connection
    nChan,       \* inbound channels produced so far (ids 1..nChan)
    sshConn,     \* SshServer.Accept's goroutine per connection:
                 \*   -1 not started, 0 in "range chans", k sending channel k
    disppc,      \* newServerChannel's position
    sesspc,      \* setupRelay's position, per inbound channel
    dialed,      \* the outcome of c.Connect() in setupRelay, per session
    cpc,         \* the two copy goroutines of a session
    once,        \* calls of once.Do so far, per session
    closerRuns,  \* executions of closer, per session
    inCh,        \* Close() calls on the inbound channel sdc (0: open)
    outCh,       \* Close() calls on the outbound connection a session
                 \*   dialed (-1: not dialed)
    est,         \* SshClient.est
    sshDc,       \* SshClient.dc.sess: the session that dialed it (0: none)
    dcRdc,       \* SshClient.dc.rdc: the session whose dialed sess it reads
    dcWrc,       \* SshClient.dc.wrc: the session whose dialed sess it writes
    connpc,      \* a session's position inside SshClient.Connect
    cdc,         \* the channel Connect returned to a session: whose dialed
                 \*   connection its sess, rdc and wrc belong to
    sent,        \* bytes the source peer has written, per session and direction
    before,      \* those of them written before the other peer ended its stream
    eof,         \* the source peer has ended its stream
    taken,       \* bytes io.Copy has read from the source
    held,        \* the chunk io.Copy has read and not yet written
    delivered    \* bytes written to the destination, in order

mainVars == <<mainpc, done>>
srvVars == <<lnr, srvpc, srvHeld, srvExit, nAccepted, nChan, sshConn>>
sessVars == <<sesspc, dialed, cpc>>
closeVars == <<once, closerRuns, inCh, outCh>>
connVars == <<dcRdc, dcWrc, connpc, cdc>>
cliVars == <<est, sshDc, connVars>>
dataVars == <<sent, before, eof, taken, held, delivered>>
kindVars == <<serverKind, clientKind>>
vars == <<kindVars, mainVars, wg, crashed, srvVars, disppc, sessVars,
          closeVars, cliVars, dataVars>>

\* No channel, and the channel whose three parts are those of the connection
\* session s dialed.
NoDc == [sess |-> 0, rdc |-> 0, wrc |-> 0]
OwnDc(s) == [sess |-> s, rdc |-> s, wrc |-> s]

Init ==
    /\ serverKind \in Kinds
    /\ clientKind \in Kinds
    /\ mainpc = "start"
    /\ done = FALSE
    /\ wg = 0
    /\ crashed = FALSE
    /\ lnr = "nil"
    /\ srvpc = "notstarted"
    /\ srvHeld = 0
    /\ srvExit = "none"
    /\ nAccepted = 0
    /\ nChan = 0
    /\ sshConn = [k \in Conns |-> -1]
    /\ disppc = "notstarted"
    /\ sesspc = [s \in Chans |-> "none"]
    /\ dialed = [s \in Chans |-> "none"]
    /\ cpc = [s \in Chans |-> [d \in Dirs |-> "none"]]
    /\ once = [s \in Chans |-> 0]
    /\ closerRuns = [s \in Chans |-> 0]
    /\ inCh = [s \in Chans |-> 0]
    /\ outCh = [s \in Chans |-> -1]
    /\ est = FALSE
    /\ sshDc = 0
    /\ dcRdc = 0
    /\ dcWrc = 0
    /\ connpc = [s \in Chans |-> "none"]
    /\ cdc = [s \in Chans |-> NoDc]
    /\ sent = [s \in Chans |-> [d \in Dirs |-> 0]]
    /\ before = [s \in Chans |-> [d \in Dirs |-> 0]]
    /\ eof = [s \in Chans |-> [d \in Dirs |-> FALSE]]
    /\ taken = [s \in Chans |-> [d \in Dirs |-> 0]]
    /\ held = [s \in Chans |-> [d \in Dirs |-> <<>>]]
    /\ delivered = [s \in Chans |-> [d \in Dirs |-> <<>>]]

\* The process runs: no goroutine has panicked and main has not returned.
Alive == ~crashed /\ mainpc # "exit"

-----------------------------------------------------------------------------
(* main, src/ssh2tcp.go:242-268 *)

\* wg.Add(1); go doServer(server, sdcs, &wg, done)
MainStartServer ==
    /\ Alive
    /\ mainpc = "start"
    /\ mainpc' = "start2"
    /\ wg' = wg + 1
    /\ srvpc' = "listen"
    /\ UNCHANGED <<kindVars, done, crashed, lnr, srvHeld, srvExit, nAccepted,
                   nChan, sshConn, disppc, sessVars, closeVars, cliVars, dataVars>>

\* wg.Add(1); go newServerChannel(client, sdcs, &wg, done)
MainStartDispatcher ==
    /\ Alive
    /\ mainpc = "start2"
    /\ mainpc' = "signal"
    /\ wg' = wg + 1
    /\ disppc' = "select"
    /\ UNCHANGED <<kindVars, done, crashed, srvVars, sessVars, closeVars,
                   cliVars, dataVars>>

\* case <-signal_chan: quit = true
MainSignal ==
    /\ Alive
    /\ mainpc = "signal"
    /\ mainpc' = "close_done"
    /\ UNCHANGED <<kindVars, done, wg, crashed, srvVars, disppc, sessVars,
                   closeVars, cliVars, dataVars>>

\* A main that would go on to its cleanup without close(done).
DoneLeftOpen == FALSE
\* done after close(done): closed.
DoneClosed == TRUE

\* close(done)
MainCloseDone ==
    /\ Alive
    /\ mainpc = "close_done"
    /\ mainpc' = "client_close"
    /\ done' = DoneClosed
    /\ UNCHANGED <<kindVars, wg, crashed, srvVars, disppc, sessVars,
                   closeVars, cliVars, dataVars>>

\* client.Close().  TcpClient.Close closes the zero net.TCPConn c.conn, which
\* returns an error and changes nothing.  SshClient.Close closes c.dc, the
\* channel of the last Connect, when c.est is set.
MainClientClose ==
    /\ Alive
    /\ mainpc = "client_close"
    /\ mainpc' = "server_close"
    /\ IF clientKind = "ssh" /\ est
         THEN /\ est' = FALSE
              /\ outCh' = [outCh EXCEPT ![sshDc] = @ + 1]
         ELSE UNCHANGED <<est, outCh>>
    /\ UNCHANGED <<kindVars, done, wg, crashed, srvVars, disppc, sessVars,
                   once, closerRuns, inCh, sshDc, connVars, dataVars>>

\* server.Close(): s.lnr.Close().  s.lnr is the nil interface until Listen has
\* stored a listener (and stays nil when Listen failed): the call then panics.
\* main reads s.lnr while doServer may be writing it, without synchronisation:
\* the read yields the value before or after the write, both modelled here by
\* the order of the two steps.
MainServerClose ==
    /\ Alive
    /\ mainpc = "server_close"
    /\ IF lnr = "nil"
         THEN /\ crashed' = TRUE
              /\ UNCHANGED <<mainpc, lnr>>
         ELSE /\ lnr' = "closed"
              /\ mainpc' = "wait"
              /\ UNCHANGED crashed
    /\ UNCHANGED <<kindVars, done, wg, srvpc, srvHeld, srvExit, nAccepted, nChan,
                   sshConn, disppc, sessVars, closeVars, cliVars, dataVars>>

\* wg.Wait() returns when the counter is zero; main returns.
MainWait ==
    /\ Alive
    /\ mainpc = "wait"
    /\ wg = 0
    /\ mainpc' = "exit"
    /\ UNCHANGED <<kindVars, done, wg, crashed, srvVars, disppc, sessVars,
                   closeVars, cliVars, dataVars>>

-----------------------------------------------------------------------------
(* doServer, src/ssh2tcp.go:46-68, with Listen and Accept of both back ends *)

\* s.Listen() succeeds: s.lnr holds the listener.
SrvListenOk ==
    /\ Alive
    /\ srvpc = "listen"
    /\ lnr' = "open"
    /\ srvpc' = "accept"
    /\ UNCHANGED <<kindVars, mainVars, wg, crashed, srvHeld, srvExit, nAccepted,
                   nChan, sshConn, disppc, sessVars, closeVars, cliVars, dataVars>>

\* A doServer that would call Listen again after it failed.
AfterListenErrRetry == "listen"
\* Where doServer goes when Listen has returned an error: it returns.
AfterListenErr == "done"

\* s.Listen() fails: s.lnr is set to the nil listener net.Listen returned;
\* doServer returns (deferred wg.Done).
SrvListenFail ==
    /\ Alive
    /\ srvpc = "listen"
    /\ srvpc' = AfterListenErr
    /\ srvExit' = "listen"
    /\ wg' = IF AfterListenErr = "done" THEN wg - 1 ELSE wg
    /\ UNCHANGED <<kindVars, mainVars, crashed, lnr, srvHeld, nAccepted, nChan,
                   sshConn, disppc, sessVars, closeVars, cliVars, dataVars>>

\* TcpServer.Accept: s.lnr.Accept() returns a connection; Accept goes on to
\* the send dcs <- dc, where it waits for a receiver.
SrvAcceptTcp ==
    /\ Alive
    /\ srvpc = "accept"
    /\ serverKind = "tcp"
    /\ lnr = "open"
    /\ nAccepted < MaxConn
    /\ nAccepted' = nAccepted + 1
    /\ nChan' = nChan + 1
    /\ srvHeld' = nChan + 1
    /\ srvpc' = "send"
    /\ UNCHANGED <<kindVars, mainVars, wg, crashed, lnr, srvExit, sshConn,
                   disppc, sessVars, closeVars, cliVars, dataVars>>

\* SshServer.Accept: s.lnr.Accept() returns a connection; the handshake runs,
\* a goroutine is started that ranges over the connection's new channels, and
\* Accept returns nil without waiting for any channel to be handed over.
SrvAcceptSsh ==
    /\ Alive
    /\ srvpc = "accept"
    /\ serverKind = "ssh"
    /\ lnr = "open"
    /\ nAccepted < MaxConn
    /\ nAccepted' = nAccepted + 1
    /\ sshConn' = [sshConn EXCEPT ![nAccepted + 1] = 0]
    /\ srvpc' = "check"
    /\ UNCHANGED <<kindVars, mainVars, wg, crashed, lnr, srvHeld, srvExit, nChan,
                   disppc, sessVars, closeVars, cliVars, dataVars>>

\* A loop that would go on to the next Accept after an error.
AfterAcceptErrStay == "accept"
\* Where doServer goes when Accept has returned an error: it returns.
AfterAcceptErr == "done"

\* s.lnr.Accept() returns an error (the listener was closed, or any other
\* failure of the accept call): Accept returns it, doServer returns.
SrvAcceptErr ==
    /\ Alive
    /\ srvpc = "accept"
    /\ lnr # "nil"
    /\ srvpc' = AfterAcceptErr
    /\ srvExit' = "accept"
    /\ wg' = IF AfterAcceptErr = "done" THEN wg - 1 ELSE wg
    /\ UNCHANGED <<kindVars, mainVars, crashed, lnr, srvHeld, nAccepted, nChan,
                   sshConn, disppc, sessVars, closeVars, cliVars, dataVars>>

\* A loop whose select would always take the default case.
DoneNeverSeen == FALSE
\* case <-done of doServer's select is taken exactly when done is closed.
DoneSeen == done

\* select { case <-done: return; default: } after a successful Accept.
SrvCheck ==
    /\ Alive
    /\ srvpc = "check"
    /\ IF DoneSeen
         THEN /\ srvpc' = "done"
              /\ srvExit' = "shutdown"
              /\ wg' = wg - 1
         ELSE /\ srvpc' = "accept"
              /\ UNCHANGED <<srvExit, wg>>
    /\ UNCHANGED <<kindVars, mainVars, crashed, lnr, srvHeld, nAccepted, nChan,
                   sshConn, disppc, sessVars, closeVars, cliVars, dataVars>>

\* The goroutine of SshServer.Accept: newChannel.Accept() yields a channel,
\* which the goroutine goes on to send on dcs.
ConnNewChannel(k) ==
    /\ Alive
    /\ sshConn[k] = 0
    /\ nChan < MaxConn
    /\ nChan' = nChan + 1
    /\ sshConn' = [sshConn EXCEPT ![k] = nChan + 1]
    /\ UNCHANGED <<kindVars, mainVars, wg, crashed, lnr, srvpc, srvHeld, srvExit,
                   nAccepted, disppc, sessVars, closeVars, cliVars, dataVars>>

-----------------------------------------------------------------------------
(* newServerChannel, src/ssh2tcp.go:70-86 *)

\* A dispatcher that would start setupRelay without wg.Add.
AddNone(n) == n
\* The counter after the wg.Add(1) that precedes go setupRelay.
AddSession(n) == n + 1

\* case dc := <-dcs, with TcpServer.Accept as the sender.  Both a *net.TCPConn
\* and an ssh.Channel have Read, Write, Close and CloseWrite, so the type
\* assertion holds: wg.Add(1); go setupRelay.  A select with several ready
\* cases takes any of them, so a closed done does not disable this one.
DispRecvSrv ==
    /\ Alive
    /\ disppc = "select"
    /\ srvpc = "send"
    /\ srvpc' = "check"
    /\ srvHeld' = 0
    /\ sesspc' = [sesspc EXCEPT ![srvHeld] = "dial"]
    /\ wg' = AddSession(wg)
    /\ UNCHANGED <<kindVars, mainVars, crashed, lnr, srvExit, nAccepted, nChan,
                   sshConn, disppc, dialed, cpc, closeVars, cliVars, dataVars>>

\* case dc := <-dcs, with a goroutine of SshServer.Accept as the sender.
DispRecvConn(k) ==
    /\ Alive
    /\ disppc = "select"
    /\ sshConn[k] > 0
    /\ sshConn' = [sshConn EXCEPT ![k] = 0]
    /\ sesspc' = [sesspc EXCEPT ![sshConn[k]] = "dial"]
    /\ wg' = AddSession(wg)
    /\ UNCHANGED <<kindVars, mainVars, crashed, lnr, srvpc, srvHeld, srvExit,
                   nAccepted, nChan, disppc, dialed, cpc, closeVars, cliVars,
                   dataVars>>

\* case <-done: return (deferred wg.Done).
DispDone ==
    /\ Alive
    /\ disppc = "select"
    /\ done
    /\ disppc' = "done"
    /\ wg' = wg - 1
    /\ UNCHANGED <<kindVars, mainVars, crashed, srvVars, sessVars, closeVars,
                   cliVars, dataVars>>

-----------------------------------------------------------------------------
(* setupRelay, src/ssh2tcp.go:88-126 *)

\* A guard that would let every call of Do run f.
OnceAlways(s) == TRUE
\* sync.Once: f runs in the first call of Do only.
OnceFresh(s) == once[s] = 0

\* A closer that would close cdc only.
SdcLeftOpen(s) == inCh
\* sdc.Close() of closer.
SdcClose(s) == [inCh EXCEPT ![s] = @ + 1]

\* closer: cdc.Close(); sdc.Close().  cdc.Close() is Close() of the sess that
\* the channel Connect returned holds.
Closer(s) ==
    /\ closerRuns' = [closerRuns EXCEPT ![s] = @ + 1]
    /\ outCh' = [outCh EXCEPT ![cdc[s].sess] = @ + 1]
    /\ inCh' = SdcClose(s)

\* once.Do(closer).
OnceDo(s) ==
    /\ once' = [once EXCEPT ![s] = @ + 1]
    /\ IF OnceFresh(s)
         THEN Closer(s)
         ELSE UNCHANGED <<closerRuns, outCh, inCh>>

\* wg.Add(2); the two copy goroutines start and setupRelay goes on to its
\* select.
StartCopies(s) ==
    /\ sesspc' = [sesspc EXCEPT ![s] = "wait"]
    /\ dialed' = [dialed EXCEPT ![s] = "ok"]
    /\ wg' = wg + 2
    /\ cpc' = [cpc EXCEPT ![s] = [d \in Dirs |-> "copy"]]

\* c.Connect() returns a channel, with no other Connect running meanwhile:
\* wg.Add(2), the two copy goroutines start and setupRelay goes on to wait for
\* done.  SshClient.Connect leaves c.est set and the channel in c.dc.
DialOk(s) ==
    /\ Alive
    /\ sesspc[s] = "dial"
    /\ connpc[s] = "none"
    /\ StartCopies(s)
    /\ outCh' = [outCh EXCEPT ![s] = 0]
    /\ cdc' = [cdc EXCEPT ![s] = OwnDc(s)]
    /\ IF clientKind = "ssh"
         THEN est' = TRUE /\ sshDc' = s /\ dcRdc' = s /\ dcWrc' = s
         ELSE UNCHANGED <<est, sshDc, dcRdc, dcWrc>>
    /\ UNCHANGED <<kindVars, mainVars, crashed, srvVars, disppc, once,
                   closerRuns, inCh, connpc, dataVars>>

\* The dial fails.  TcpClient.Connect then evaluates cc.RemoteAddr() on the nil
\* net.Conn that net.Dial returned, which panics.  SshClient.Connect, which set
\* c.est = false on entry, returns the error: setupRelay closes sdc and returns
\* (deferred wg.Done).
DialFail(s) ==
    /\ Alive
    /\ sesspc[s] = "dial"
    /\ connpc[s] = "none"
    /\ dialed' = [dialed EXCEPT ![s] = "fail"]
    /\ IF clientKind = "tcp"
         THEN /\ crashed' = TRUE
              /\ UNCHANGED <<sesspc, inCh, wg, est>>
         ELSE /\ sesspc' = [sesspc EXCEPT ![s] = "done"]
              /\ inCh' = [inCh EXCEPT ![s] = @ + 1]
              /\ wg' = wg - 1
              /\ est' = FALSE
              /\ UNCHANGED crashed
    /\ UNCHANGED <<kindVars, mainVars, srvVars, disppc, cpc, once, closerRuns,
                   outCh, sshDc, connVars, dataVars>>

\* A case <-done that would return without once.Do(closer).
SupJustReturn(s) == UNCHANGED closeVars
\* What setupRelay's case <-done does to the guard and the channels.
SupOnDone(s) == OnceDo(s)

\* A supervisory loop that would also return once both copy goroutines ended.
SupReadyWhenCopied(s) == done \/ \A d \in Dirs : cpc[s][d] = "done"
\* The only case of setupRelay's select: it is ready when done is closed.
SupReady(s) == done

\* case <-done: once.Do(closer); return (deferred wg.Done).
SupDone(s) ==
    /\ Alive
    /\ sesspc[s] = "wait"
    /\ SupReady(s)
    /\ SupOnDone(s)
    /\ sesspc' = [sesspc EXCEPT ![s] = "done"]
    /\ wg' = wg - 1
    /\ UNCHANGED <<kindVars, mainVars, crashed, srvVars, disppc, dialed, cpc,
                   cliVars, dataVars>>

Other(d) == IF d = "s2c" THEN "c2s" ELSE "s2c"
\* The source of direction d exists: sdc once accepted, cdc once dialed.
SrcExists(s, d) == IF d = "s2c" THEN s <= nChan ELSE outCh[s] >= 0
\* The relay has closed the source (the destination) of direction d.
SrcClosed(s, d) == IF d = "s2c" THEN inCh[s] > 0 ELSE outCh[s] > 0
DstClosed(s, d) == SrcClosed(s, Other(d))

\* A copy goroutine of the stream-agnostic specification: io.Copy returns
\* (its source reached end-of-stream or failed, or a Read or Write met a
\* channel the relay closed), then once.Do(closer), and the goroutine ends
\* (deferred wg.Done).  The return of io.Copy writes nothing shared, so it is
\* one step with the once.Do that follows it.
CopyDone(s, d) ==
    /\ Alive
    /\ cpc[s][d] = "copy"
    /\ OnceDo(s)
    /\ cpc' = [cpc EXCEPT ![s][d] = "done"]
    /\ wg' = wg - 1
    /\ UNCHANGED <<kindVars, mainVars, crashed, srvVars, disppc, sesspc, dialed,
                   cliVars, dataVars>>

-----------------------------------------------------------------------------
(* The copy goroutines with the stream's bytes followed: io.Copy(dst, src)  *)
(* reads a chunk from src, writes it to dst, and returns on end-of-stream   *)
(* or on the first failing Read or Write (src/ssh2tcp.go:105-116).  The     *)
(* peer at the source end writes the bytes 1, 2, ... in this order.         *)

\* The peer at the source end of direction d writes its next byte.
PeerWrite(s, d) ==
    /\ Alive
    /\ SrcExists(s, d)
    /\ ~SrcClosed(s, d)
    /\ ~eof[s][d]
    /\ sent[s][d] < MaxBytes
    /\ sent' = [sent EXCEPT ![s][d] = @ + 1]
    /\ before' = [before EXCEPT ![s][d] = IF eof[s][Other(d)] THEN @ ELSE @ + 1]
    /\ UNCHANGED <<kindVars, mainVars, wg, crashed, srvVars, disppc, sessVars,
                   closeVars, cliVars, eof, taken, held, delivered>>

\* The peer at the source end of direction d ends its stream.
PeerEof(s, d) ==
    /\ Alive
    /\ SrcExists(s, d)
    /\ ~SrcClosed(s, d)
    /\ ~eof[s][d]
    /\ eof' = [eof EXCEPT ![s][d] = TRUE]
    /\ UNCHANGED <<kindVars, mainVars, wg, crashed, srvVars, disppc, sessVars,
                   closeVars, cliVars, sent, before, taken, held, delivered>>

\* The bytes taken+1 .. taken+n of the source's stream.
Chunk(from, n) == [i \in 1..n |-> from + i]

\* src.Read returns n > 0 of the bytes that are waiting.
CopyRead(s, d) ==
    /\ Alive
    /\ cpc[s][d] = "copy"
    /\ held[s][d] = <<>>
    /\ ~SrcClosed(s, d)
    /\ \E n \in 1..(sent[s][d] - taken[s][d]) :
          /\ held' = [held EXCEPT ![s][d] = Chunk(taken[s][d], n)]
          /\ taken' = [taken EXCEPT ![s][d] = @ + n]
    /\ UNCHANGED <<kindVars, mainVars, wg, crashed, srvVars, disppc, sessVars,
                   closeVars, cliVars, sent, before, eof, delivered>>

\* io.Copy has returned: once.Do(closer); the goroutine ends.
CopyReturn(s, d) ==
    /\ OnceDo(s)
    /\ cpc' = [cpc EXCEPT ![s][d] = "done"]
    /\ wg' = wg - 1

\* dst.Write of the chunk read: it reaches the destination, or dst has been
\* closed, the Write fails and io.Copy returns.
CopyWrite(s, d) ==
    /\ Alive
    /\ cpc[s][d] = "copy"
    /\ held[s][d] # <<>>
    /\ held' = [held EXCEPT ![s][d] = <<>>]
    /\ IF DstClosed(s, d)
         THEN /\ CopyReturn(s, d)
              /\ UNCHANGED delivered
         ELSE /\ delivered' = [delivered EXCEPT ![s][d] = @ \o held[s][d]]
              /\ UNCHANGED <<cpc, wg, closeVars>>
    /\ UNCHANGED <<kindVars, mainVars, crashed, srvVars, disppc, sesspc, dialed,
                   cliVars, sent, before, eof, taken>>

\* src.Read returns io.EOF: every byte written was read and the peer ended
\* its stream.
CopyEof(s, d) ==
    /\ Alive
    /\ cpc[s][d] = "copy"
    /\ held[s][d] = <<>>
    /\ ~SrcClosed(s, d)
    /\ eof[s][d]
    /\ taken[s][d] = sent[s][d]
    /\ CopyReturn(s, d)
    /\ UNCHANGED <<kindVars, mainVars, crashed, srvVars, disppc, sesspc, dialed,
                   cliVars, dataVars>>

\* src.Read fails: the relay has closed src.
CopyReadErr(s, d) ==
    /\ Alive
    /\ cpc[s][d] = "copy"
    /\ held[s][d] = <<>>
    /\ SrcClosed(s, d)
    /\ CopyReturn(s, d)
    /\ UNCHANGED <<kindVars, mainVars, crashed, srvVars, disppc, sesspc, dialed,
                   cliVars, dataVars>>

-----------------------------------------------------------------------------

\* The steps common to both specifications.
Lifecycle ==
    \/ MainStartServer
    \/ MainStartDispatcher
    \/ MainSignal
    \/ MainCloseDone
    \/ MainClientClose
    \/ MainServerClose
    \/ MainWait
    \/ SrvListenOk
    \/ SrvListenFail
    \/ SrvAcceptTcp
    \/ SrvAcceptSsh
    \/ SrvAcceptErr
    \/ SrvCheck
    \/ \E k \in Conns : ConnNewChannel(k)
    \/ DispRecvSrv
    \/ \E k \in Conns : DispRecvConn(k)
    \/ DispDone
    \/ \E s \in Chans : DialOk(s)
    \/ \E s \in Chans : DialFail(s)
    \/ \E s \in Chans : SupDone(s)

Next ==
    \/ Lifecycle
    \/ \E s \in Chans, d \in Dirs : CopyDone(s, d)

Spec == Init /\ [][Next]_vars

\* The steps that need nothing from outside the process, or only the return of
\* a call that does return: the goroutines' own statements, Listen and Connect
\* returning, Accept failing on a closed listener, a select with a ready case,
\* and a Read failing on a channel the relay has closed.  The Go scheduler runs
\* every runnable goroutine, so these are taken when they stay enabled.  The
\* termination request, a client connecting or opening a channel, an accept
\* error on an open listener and a peer ending its stream may never happen.
Forced ==
    \/ MainStartServer
    \/ MainStartDispatcher
    \/ MainCloseDone
    \/ MainClientClose
    \/ MainServerClose
    \/ MainWait
    \/ SrvListenOk
    \/ SrvListenFail
    \/ (lnr = "closed" /\ SrvAcceptErr)
    \/ SrvCheck
    \/ DispRecvSrv
    \/ \E k \in Conns : DispRecvConn(k)
    \/ DispDone
    \/ \E s \in Chans : DialOk(s)
    \/ \E s \in Chans : DialFail(s)
    \/ \E s \in Chans : SupDone(s)
    \/ \E s \in Chans, d \in Dirs : SrcClosed(s, d) /\ CopyDone(s, d)

\* No step undoes another (every step moves a goroutine forward or adds to a
\* counter), so weak fairness of the disjunction is weak fairness of each.
FairSpec == Spec /\ WF_vars(Forced)

\* The byte-level specification starts in the state Spec reaches by
\* MainStartServer, MainStartDispatcher, SrvListenOk, SrvAcceptTcp, DispRecvSrv,
\* SrvCheck, SrvAcceptErr: one inbound connection has been handed to session 1,
\* which is dialing, and doServer has returned on an accept error.  No step of
\* doServer or of a goroutine of SshServer.Accept is enabled from there on, and
\* the dispatcher can only observe done; DataNext lists every other step.
DataInit ==
    /\ serverKind = "tcp"
    /\ clientKind \in Kinds
    /\ mainpc = "signal"
    /\ done = FALSE
    /\ wg = 2
    /\ crashed = FALSE
    /\ lnr = "open"
    /\ srvpc = "done"
    /\ srvHeld = 0
    /\ srvExit = "accept"
    /\ nAccepted = 1
    /\ nChan = 1
    /\ sshConn = [k \in Conns |-> -1]
    /\ disppc = "select"
    /\ sesspc = [s \in Chans |-> IF s = 1 THEN "dial" ELSE "none"]
    /\ dialed = [s \in Chans |-> "none"]
    /\ cpc = [s \in Chans |-> [d \in Dirs |-> "none"]]
    /\ once = [s \in Chans |-> 0]
    /\ closerRuns = [s \in Chans |-> 0]
    /\ inCh = [s \in Chans |-> 0]
    /\ outCh = [s \in Chans |-> -1]
    /\ est = FALSE
    /\ sshDc = 0
    /\ dcRdc = 0
    /\ dcWrc = 0
    /\ connpc = [s \in Chans |-> "none"]
    /\ cdc = [s \in Chans |-> NoDc]
    /\ sent = [s \in Chans |-> [d \in Dirs |-> 0]]
    /\ before = [s \in Chans |-> [d \in Dirs |-> 0]]
    /\ eof = [s \in Chans |-> [d \in Dirs |-> FALSE]]
    /\ taken = [s \in Chans |-> [d \in Dirs |-> 0]]
    /\ held = [s \in Chans |-> [d \in Dirs |-> <<>>]]
    /\ delivered = [s \in Chans |-> [d \in Dirs |-> <<>>]]

DataNext ==
    \/ MainSignal
    \/ MainCloseDone
    \/ MainClientClose
    \/ MainServerClose
    \/ MainWait
    \/ DispDone
    \/ \E s \in Chans : DialOk(s)
    \/ \E s \in Chans : DialFail(s)
    \/ \E s \in Chans : SupDone(s)
    \/ \E s \in Chans, d \in Dirs : PeerWrite(s, d)
    \/ \E s \in Chans, d \in Dirs : PeerEof(s, d)
    \/ \E s \in Chans, d \in Dirs : CopyRead(s, d)
    \/ \E s \in Chans, d \in Dirs : CopyWrite(s, d)
    \/ \E s \in Chans, d \in Dirs : CopyEof(s, d)
    \/ \E s \in Chans, d \in Dirs : CopyReadErr(s, d)

DataSpec == DataInit /\ [][DataNext]_vars

-----------------------------------------------------------------------------
(* SshClient.Connect statement by statement, src/ssh.go:42-70.  setupRelay   *)
(* goroutines call it on the one *SshClient of the process with no lock      *)
(* (src/ssh2tcp.go:91), and it works in the client's fields c.est and c.dc:  *)
(* each write and each read of a field is a step of its own, so that the     *)
(* calls of several sessions interleave.  DialOk and DialFail above are the  *)
(* runs of these steps in which no other call comes in between.              *)

\* c.est = false; then ssh.Dial, which touches nothing shared.
ConnEnter(s) ==
    /\ Alive
    /\ clientKind = "ssh"
    /\ sesspc[s] = "dial"
    /\ connpc[s] = "none"
    /\ est' = FALSE
    /\ connpc' = [connpc EXCEPT ![s] = "dial"]
    /\ UNCHANGED <<kindVars, mainVars, wg, crashed, srvVars, disppc, sessVars,
                   closeVars, sshDc, dcRdc, dcWrc, cdc, dataVars>>

\* ssh.Dial returned cc: c.dc.sess, err = cc.NewSession().
ConnSess(s) ==
    /\ Alive
    /\ connpc[s] = "dial"
    /\ sshDc' = s
    /\ outCh' = [outCh EXCEPT ![s] = 0]
    /\ connpc' = [connpc EXCEPT ![s] = "est"]
    /\ UNCHANGED <<kindVars, mainVars, wg, crashed, srvVars, disppc, sessVars,
                   once, closerRuns, inCh, est, dcRdc, dcWrc, cdc, dataVars>>

\* c.est = true
ConnEst(s) ==
    /\ Alive
    /\ connpc[s] = "est"
    /\ est' = TRUE
    /\ connpc' = [connpc EXCEPT ![s] = "rdc"]
    /\ UNCHANGED <<kindVars, mainVars, wg, crashed, srvVars, disppc, sessVars,
                   closeVars, sshDc, dcRdc, dcWrc, cdc, dataVars>>

\* c.dc.rdc, err = c.dc.sess.StdoutPipe(): the pipe of the sess that c.dc
\* holds at this moment.
ConnRdc(s) ==
    /\ Alive
    /\ connpc[s] = "rdc"
    /\ dcRdc' = sshDc
    /\ connpc' = [connpc EXCEPT ![s] = "wrc"]
    /\ UNCHANGED <<kindVars, mainVars, wg, crashed, srvVars, disppc, sessVars,
                   closeVars, est, sshDc, dcWrc, cdc, dataVars>>

\* c.dc.wrc, err = c.dc.sess.StdinPipe()
ConnWrc(s) ==
    /\ Alive
    /\ connpc[s] = "wrc"
    /\ dcWrc' = sshDc
    /\ connpc' = [connpc EXCEPT ![s] = "shell"]
    /\ UNCHANGED <<kindVars, mainVars, wg, crashed, srvVars, disppc, sessVars,
                   closeVars, est, sshDc, dcRdc, cdc, dataVars>>

\* c.dc.sess.Shell(), whose result is dropped; return c.dc, nil: the caller
\* gets a copy of the three fields as they are now.  setupRelay goes on with
\* wg.Add(2) and the copy goroutines.
ConnReturn(s) ==
    /\ Alive
    /\ connpc[s] = "shell"
    /\ cdc' = [cdc EXCEPT ![s] = [sess |-> sshDc, rdc |-> dcRdc, wrc |-> dcWrc]]
    /\ connpc' = [connpc EXCEPT ![s] = "done"]
    /\ StartCopies(s)
    /\ UNCHANGED <<kindVars, mainVars, crashed, srvVars, disppc, closeVars,
                   est, sshDc, dcRdc, dcWrc, dataVars>>

\* ssh.Dial, NewSession, StdoutPipe or StdinPipe returns an error: Connect
\* returns it, setupRelay closes sdc and returns (deferred wg.Done).
ConnErr(s) ==
    /\ Alive
    /\ connpc[s] \in {"dial", "rdc", "wrc"}
    /\ connpc' = [connpc EXCEPT ![s] = "done"]
    /\ sesspc' = [sesspc EXCEPT ![s] = "done"]
    /\ dialed' = [dialed EXCEPT ![s] = "fail"]
    /\ inCh' = [inCh EXCEPT ![s] = @ + 1]
    /\ wg' = wg - 1
    /\ UNCHANGED <<kindVars, mainVars, crashed, srvVars, disppc, cpc, once,
                   closerRuns, outCh, est, sshDc, dcRdc, dcWrc, cdc, dataVars>>

\* The specification of concurrent Connect calls starts in the state Spec
\* reaches, with an ssh client, when TcpServer has accepted MaxConn connections,
\* the dispatcher has started a session for each, none has called Connect yet
\* and doServer has returned on an accept error.  ConnNext lists every step
\* that can be taken from there on, with Connect taken statement by statement.
ConnInit ==
    /\ serverKind = "tcp"
    /\ clientKind = "ssh"
    /\ mainpc = "signal"
    /\ done = FALSE
    /\ wg = 1 + MaxConn
    /\ crashed = FALSE
    /\ lnr = "open"
    /\ srvpc = "done"
    /\ srvHeld = 0
    /\ srvExit = "accept"
    /\ nAccepted = MaxConn
    /\ nChan = MaxConn
    /\ sshConn = [k \in Conns |-> -1]
    /\ disppc = "select"
    /\ sesspc = [s \in Chans |-> "dial"]
    /\ dialed = [s \in Chans |-> "none"]
    /\ cpc = [s \in Chans |-> [d \in Dirs |-> "none"]]
    /\ once = [s \in Chans |-> 0]
    /\ closerRuns = [s \in Chans |-> 0]
    /\ inCh = [s \in Chans |-> 0]
    /\ outCh = [s \in Chans |-> -1]
    /\ est = FALSE
    /\ sshDc = 0
    /\ dcRdc = 0
    /\ dcWrc = 0
    /\ connpc = [s \in Chans |-> "none"]
    /\ cdc = [s \in Chans |-> NoDc]
    /\ sent = [s \in Chans |-> [d \in Dirs |-> 0]]
    /\ before = [s \in Chans |-> [d \in Dirs |-> 0]]
    /\ eof = [s \in Chans |-> [d \in Dirs |-> FALSE]]
    /\ taken = [s \in Chans |-> [d \in Dirs |-> 0]]
    /\ held = [s \in Chans |-> [d \in Dirs |-> <<>>]]
    /\ delivered = [s \in Chans |-> [d \in Dirs |-> <<>>]]

ConnNext ==
    \/ MainSignal
    \/ MainCloseDone
    \/ MainClientClose
    \/ MainServerClose
    \/ MainWait
    \/ DispDone
    \/ \E s \in Chans : ConnEnter(s)
    \/ \E s \in Chans : ConnSess(s)
    \/ \E s \in Chans : ConnEst(s)
    \/ \E s \in Chans : ConnRdc(s)
    \/ \E s \in Chans : ConnWrc(s)
    \/ \E s \in Chans : ConnReturn(s)
    \/ \E s \in Chans : ConnErr(s)
    \/ \E s \in Chans : SupDone(s)
    \/ \E s \in Chans, d \in Dirs : CopyDone(s, d)

ConnSpec == ConnInit /\ [][ConnNext]_vars

-----------------------------------------------------------------------------
(* Properties *)

\* The tracked goroutines that have been started and have not returned.
Running ==
    (IF srvpc \in {"notstarted", "done"} THEN 0 ELSE 1)
    + (IF disppc \in {"notstarted", "done"} THEN 0 ELSE 1)
    + Cardinality({s \in Chans : sesspc[s] \notin {"none", "done"}})
    + Cardinality({p \in Chans \X Dirs : cpc[p[1]][p[2]] = "copy"})

\* C1: in every session closer runs at most once, whichever of the three
\* callers of once.Do come first, second and third: it has run exactly when
\* once.Do has been called, and sdc is closed at most once.
C1_CloserAtMostOnce ==
    \A s \in Chans :
        /\ closerRuns[s] <= 1
        /\ closerRuns[s] = (IF once[s] > 0 THEN 1 ELSE 0)
        /\ inCh[s] <= 1

\* All three triggers of a session have called once.Do.
C1_Witness == \E s \in Chans : once[s] = 3 /\ closerRuns[s] = 1

\* C2: every inbound channel accepted before done is closed is eventually
\* claimed by a session (unless the process has crashed meanwhile).
C2_AcceptedIsClaimed ==
    \A s \in Chans :
        (s <= nChan /\ ~done) ~> (sesspc[s] # "none" \/ crashed)

\* C3: when a copy goroutine has ended, the destination has received, in
\* order and once each, at least the bytes the source peer wrote before the
\* other peer ended its stream.
C3_NoByteDropped ==
    \A s \in Chans, d \in Dirs :
        cpc[s][d] = "done" =>
            /\ delivered[s][d] = Chunk(0, Len(delivered[s][d]))
            /\ Len(delivered[s][d]) >= before[s][d]

\* C4: a failed dial closes the session's inbound channel, starts no copy
\* goroutine, ends the session, and leaves the process running.
C4_DialFailureIsLocal ==
    \A s \in Chans :
        dialed[s] = "fail" =>
            /\ ~crashed
            /\ sesspc[s] = "done"
            /\ inCh[s] = 1
            /\ \A d \in Dirs : cpc[s][d] = "none"

\* C5: once done is closed, no step starts a session.
C5_NoDequeueAfterShutdown ==
    [][done => \A s \in Chans : sesspc[s] = "none" => sesspc'[s] = "none"]_vars

C7_DrainCompletes == (mainpc = "close_done") ~> (mainpc = "exit" \/ crashed)

C9_AcceptFailureIsFinal ==
    /\ [](srvExit = "accept" => srvpc = "done" /\ srvHeld = 0)
    /\ [][srvExit = "accept" =>
            srvpc' = "done" /\ nAccepted' = nAccepted /\ srvHeld' = 0]_vars

\* Accept failed after an earlier success, the listener is open and the
\* environment has a further connection to offer.
C9_Witness ==
    /\ srvExit = "accept"
    /\ nAccepted >= 1
    /\ nAccepted < MaxConn
    /\ lnr = "open"

\* C10: the WaitGroup counter is the number of tracked goroutines running; it
\* is never negative, is raised only by main before it waits or while a
\* tracked goroutine runs, stays zero once main waits on zero, and main leaves
\* wg.Wait only when none runs.
C10_CounterIsRunningTasks ==
    /\ [](wg = Running /\ wg >= 0 /\ (mainpc = "exit" => Running = 0))
    /\ [][wg' > wg => (mainpc \in {"start", "start2"} \/ wg > 0)]_vars
    /\ [][(mainpc \in {"wait", "exit"} /\ wg = 0) => wg' = 0]_vars

\* main has left wg.Wait after a session with both copy goroutines ran.
C10_Witness == mainpc = "exit" /\ \E s \in Chans : dialed[s] = "ok"

\* C11: every Close() of a session's outbound channel is the one of the
\* session's own closer, and each channel of a session is closed at most once:
\* nothing but the owning session closes a channel it has claimed.
C11_OnlyOwnerCloses ==
    \A s \in Chans :
        /\ outCh[s] >= 0 => outCh[s] = closerRuns[s]
        /\ outCh[s] <= 1
        /\ inCh[s] <= 1

\* C12: while done is open, the setupRelay goroutine of every session whose
\* dial succeeded is still in its select, whatever its copy goroutines and
\* channels have come to, so the WaitGroup counter is at least the number of
\* these sessions; such a goroutine leaves the select only with done closed.
C12_SupervisorHoldsSlot ==
    /\ [](~done =>
            /\ \A s \in Chans : dialed[s] = "ok" => sesspc[s] = "wait"
            /\ wg >= Cardinality({s \in Chans : dialed[s] = "ok"}))
    /\ [][\A s \in Chans :
            (sesspc[s] = "wait" /\ sesspc'[s] # "wait") => done]_vars

\* done is open, both copy goroutines of a session have ended and both its
\* channels are closed; its setupRelay goroutine is the one slot it holds.
C12_Witness ==
    /\ ~done
    /\ \E s \in Chans :
          /\ dialed[s] = "ok"
          /\ \A d \in Dirs : cpc[s][d] = "done"
          /\ inCh[s] > 0 /\ outCh[s] > 0
          /\ sesspc[s] = "wait"
    /\ wg = 2 + Cardinality({s \in Chans : dialed[s] = "ok"})

\* C13: doServer looks at done only after an Accept that returned without
\* error (it returns on done only from the select that follows one); once an
\* Accept has returned with done closed, doServer starts no further Accept;
\* and closing done moves no Accept: doServer leaves a pending Accept only by
\* that call returning a connection or an error.
C13_CheckOnlyAfterAccept ==
    /\ [](srvExit = "shutdown" => nAccepted >= 1 /\ srvpc = "done")
    /\ [][(srvExit # "shutdown" /\ srvExit' = "shutdown") =>
            (srvpc = "check" /\ done)]_vars
    /\ [][(done /\ srvpc \in {"check", "done"}) =>
            (srvpc' \in {"check", "done"} /\ nAccepted' = nAccepted)]_vars
    /\ [][done' # done => (srvpc' = srvpc /\ srvExit' = srvExit)]_vars
    /\ [][(srvpc = "accept" /\ srvpc' # "accept") =>
            (nAccepted' = nAccepted + 1 \/ srvExit' = "accept")]_vars

\* doServer has returned on done after a successful Accept, although the
\* listener is open and a further connection could arrive.
C13_Witness ==
    /\ srvExit = "shutdown"
    /\ nAccepted >= 1
    /\ nAccepted < MaxConn
    /\ lnr = "open"

\* C14: the step by which a failed Accept ends doServer leaves every session
\* as it is (no channel closed, no copy goroutine ended), and from then on no
\* step starts a session.
C14_NoSessionAfterAcceptFailure ==
    /\ [][(srvExit # "accept" /\ srvExit' = "accept") =>
            UNCHANGED <<sessVars, closeVars>>]_vars
    /\ [][srvExit = "accept" =>
            \A s \in Chans : sesspc[s] = "none" => sesspc'[s] = "none"]_vars

\* The inbound channels that were accepted and that the dispatcher has not
\* received yet: the one TcpServer.Accept is sending, and the one each
\* goroutine of SshServer.Accept is sending.
Undelivered ==
    (IF srvHeld > 0 THEN {srvHeld} ELSE {})
    \cup {sshConn[k] : k \in {c \in Conns : sshConn[c] > 0}}

\* C15: doServer is in (or about to start) an Accept only when no accepted
\* channel waits to be received by the dispatcher, and at most one accepted
\* channel waits at any time.
C15_HandOverBoundsIngestion ==
    /\ srvpc \in {"accept", "check"} => Undelivered = {}
    /\ Cardinality(Undelivered) <= 1

\* C16: doServer calls Listen once, before any Accept; when Listen fails,
\* doServer returns, giving back its WaitGroup slot, for good: no connection
\* is ever accepted, no channel is ever sent on dcs and no session starts.
C16_ListenOnceThenStop ==
    /\ [](srvpc = "listen" => nAccepted = 0 /\ lnr = "nil")
    /\ [][srvpc' = "listen" => srvpc \in {"notstarted", "listen"}]_vars
    /\ [][(srvExit # "listen" /\ srvExit' = "listen") =>
            (srvpc = "listen" /\ srvpc' = "done" /\ wg' = wg - 1)]_vars
    /\ [][srvExit = "listen" => (srvExit' = "listen" /\ srvpc' = "done")]_vars
    /\ [](srvExit = "listen" =>
            /\ srvpc = "done"
            /\ nAccepted = 0 /\ nChan = 0
            /\ Undelivered = {}
            /\ \A s \in Chans : sesspc[s] = "none")

\* Listen has failed and doServer has returned; the dispatcher is the one
\* tracked goroutine left, and main has not been asked to terminate.
C16_Witness ==
    /\ srvExit = "listen"
    /\ disppc = "select"
    /\ wg = 1
    /\ mainpc = "signal"

\* C17: done is open until main has received the termination request, is
\* closed by the one close(done) that follows it and stays closed; main's
\* client.Close(), server.Close() and wg.Wait() all come after close(done).
C17_DoneClosedOnceBeforeCleanup ==
    /\ [](mainpc \in {"start", "start2", "signal", "close_done"} => ~done)
    /\ [](mainpc \in {"client_close", "server_close", "wait", "exit"} => done)
    /\ [][done => done']_vars
    /\ [][(~done /\ done') =>
            (mainpc = "close_done" /\ mainpc' = "client_close")]_vars
    /\ [][mainpc' = "close_done" => mainpc \in {"signal", "close_done"}]_vars
    /\ [][(lnr # "closed" /\ lnr' = "closed") => done]_vars
    /\ [][(est /\ ~est' /\ mainpc' # mainpc) => done]_vars

\* main has closed done, then the client and the server, and waits on the
\* WaitGroup while tracked goroutines still run.
C17_Witness ==
    /\ mainpc = "wait"
    /\ done
    /\ lnr = "closed"
    /\ wg > 0

\* C18: when main has left wg.Wait, the inbound channel of every session the
\* dispatcher started and the outbound channel of every successful dial have
\* been closed, whenever the session was started and the dial returned.
C18_NoChannelLeftOpen ==
    mainpc = "exit" =>
        \A s \in Chans :
            /\ sesspc[s] # "none" => inCh[s] > 0
            /\ dialed[s] = "ok" => outCh[s] > 0

\* C19: the channel Connect returns to a session is made of the sess, the
\* read end and the write end of the connection this very call dialed, so no
\* two sessions hold parts of the same connection.
C19_ConnectReturnsOwnChannel ==
    \A s \in Chans : dialed[s] = "ok" => cdc[s] = OwnDc(s)

====
